---- MODULE Spec2Model ----
(***************************************************************************)
(* Model of scripts/export_static.py: the static exporter of a Glance      *)
(* dashboard.                                                              *)
(*                                                                         *)
(* Texts (HTML, CSS, configuration lines) are sequences of tokens.  Every  *)
(* token stands for a fixed run of characters, chosen so that the literal  *)
(* pieces of the script's regular expressions begin and end on token       *)
(* boundaries; the regular expressions are then matched token by token the *)
(* way `re` matches them character by character (leftmost match first,     *)
(* non-overlapping, replacement text never rescanned by the same pass).    *)
(***************************************************************************)
EXTENDS Integers, Sequences, FiniteSets, TLC

VARIABLES
    rw,         \* the run of _rewrite_base_paths on its own
    ds,         \* the run of _discover_slugs on its own
    ij,         \* the run of _inject_content on its own
    pc,         \* main(): the stage the run is at
    status,     \* main(): the exit status of the process, -1 while it runs
    err,        \* main(): the exception that left main() uncaught, "" if none
    args,       \* main(): --base-path and --timeout-seconds
    config,     \* the configuration directory
    assetsDir,  \* the assets/ directory of the repository
    outDir0,    \* the output directory as the run found it
    outDir,     \* the output directory
    slugs, base_path, elapsed, ready, probed, sample, bundle_css_path, deps,
    cur, todo,  \* main(): its locals and loop positions
    writes,     \* how many times each page or asset file has been written
    rewritten   \* how many times each file went through the rewriting pass

mainVars == <<pc, status, err, args, config, assetsDir, outDir0, outDir, slugs,
              base_path, elapsed, ready, probed, sample, bundle_css_path, deps,
              cur, todo, writes, rewritten>>

vars == <<rw, ds, ij, mainVars>>

(***************************************************************************)
(* Tokens.                                                                 *)
(***************************************************************************)
DQ == "\""
SQ == "'"
SL == "/"
Quotes == {DQ, SQ}

\* Opening tags; the tokens without a closing '>' are continued by
\* attribute tokens and closed by the token ">".
LINKOPEN == "<link rel=\"stylesheet\" "
SCRIPTOPEN == "<script defer "
SCRIPTEND == "></script>"
MAINPAGE == "<main class=\"page\""
MAINREADY == "<main class=\"page content-ready\""
SPANOPEN == "<span"
BUSY == " aria-busy=\"true\""
NOTBUSY == " aria-busy=\"false\""
PH == "<div class=\"page-content\" id=\"page-content\">"
DIVEND == "</div>"
GT == ">"
BUNDLEREL == "static/h/css/bundle.css"
PAGEJSREL == "static/h/js/page.js"

\* Backslash sequences of a content fragment: \1, \d, \\ and the single
\* backslash that \\ expands to.
BS1 == "\\1"
BSD == "\\d"
BSBS == "\\\\"
BS == "\\"

\* A token that contains the character '>'.
HasGT(tok) == tok \in {GT, SCRIPTEND, DIVEND, "</main>", PH}

\* A token made of whitespace only.
IsWS(tok) == tok \in {" ", "\n"}

(***************************************************************************)
(* Sequence helpers.                                                       *)
(***************************************************************************)
RECURSIVE Concat(_)
Concat(ss) == IF ss = <<>> THEN <<>> ELSE Head(ss) \o Concat(Tail(ss))

SeqsUpTo(S, n) == UNION {[1..k -> S] : k \in 0..n}

Drop(t, n) == SubSeq(t, n + 1, Len(t))

\* `pat` occurs in `t` starting at position i.
MatchAt(t, i, pat) ==
    /\ t[i] = pat[1]
    /\ i + Len(pat) - 1 <= Len(t)
    /\ \A k \in 2..Len(pat) : t[i + k - 1] = pat[k]

Range(t) == {t[i] : i \in 1..Len(t)}

(***************************************************************************)
(* _normalize_base_path                                                    *)
(***************************************************************************)
RECURSIVE LStrip(_, _)
LStrip(t, S) == IF t # <<>> /\ Head(t) \in S THEN LStrip(Tail(t), S) ELSE t

RECURSIVE RStrip(_, _)
RStrip(t, S) ==
    IF t # <<>> /\ t[Len(t)] \in S THEN RStrip(SubSeq(t, 1, Len(t) - 1), S) ELSE t

Strip(t) == RStrip(LStrip(t, {" ", "\n"}), {" ", "\n"})

_normalize_base_path(arg) ==
    LET b == Strip(arg)
    IN  IF b = <<>> \/ b = <<SL>> THEN <<>>
        ELSE RStrip(IF Head(b) # SL THEN <<SL>> \o b ELSE b, {SL})

(***************************************************************************)
(* _rewrite_base_paths                                                     *)
(***************************************************************************)
\* pat occurs at i and is not followed by a slash: pat(?!/) matches at i.
HitAt(t, i, pat) ==
    /\ MatchAt(t, i, pat)
    /\ ~(i + Len(pat) <= Len(t) /\ t[i + Len(pat)] = SL)

\* The text from position i on with every match replaced, left to right;
\* matches do not overlap and the replacement is not scanned again.
RECURSIVE SubFrom(_, _, _, _)
SubFrom(t, i, pat, repl) ==
    IF i > Len(t) THEN <<>>
    ELSE IF HitAt(t, i, pat)
         THEN repl \o SubFrom(t, i + Len(pat), pat, repl)
         ELSE <<t[i]>> \o SubFrom(t, i + 1, pat, repl)

\* re.sub(pat + "(?!/)", repl, t); a text without a match is returned as is.
SubNotSlash(t, pat, repl) ==
    IF \E i \in 1..Len(t) : HitAt(t, i, pat) THEN SubFrom(t, 1, pat, repl) ELSE t

\* One pass of the attribute loop: attr="/ and then attr='/ .
RewriteAttr(t, attr, base) ==
    LET d == SubNotSlash(t, <<attr, DQ, SL>>, <<attr, DQ>> \o base \o <<SL>>)
    IN  SubNotSlash(d, <<attr, SQ, SL>>, <<attr, SQ>> \o base \o <<SL>>)

\* href=(['"])manifest\.json, case-insensitive, matches at i.
ManifestAt(t, i) ==
    /\ i + 2 <= Len(t)
    /\ t[i] \in {"href=", "HREF="}
    /\ t[i + 1] \in Quotes
    /\ t[i + 2] \in {"manifest.json", "Manifest.json"}

\* The replacement href=\1<base>/manifest.json is lower case.
RECURSIVE ManifestFrom(_, _, _)
ManifestFrom(t, i, base) ==
    IF i > Len(t) THEN <<>>
    ELSE IF ManifestAt(t, i)
         THEN <<"href=", t[i + 1]>> \o base \o <<SL, "manifest.json">>
                  \o ManifestFrom(t, i + 3, base)
         ELSE <<t[i]>> \o ManifestFrom(t, i + 1, base)

SubManifest(t, base) ==
    IF \E i \in 1..Len(t) : ManifestAt(t, i) THEN ManifestFrom(t, 1, base) ELSE t

\* The rewriting without the early return for an empty base path.
RewriteNoEmptyCheck(text, base) ==
    LET a == RewriteAttr(RewriteAttr(RewriteAttr(text, "href=", base),
                                     "src=", base), "action=", base)
        u == SubNotSlash(a, <<"url(", SQ, SL>>, <<"url(", SQ>> \o base \o <<SL>>)
        v == SubNotSlash(u, <<"url(", DQ, SL>>, <<"url(", DQ>> \o base \o <<SL>>)
    IN  SubManifest(v, base)

_rewrite_base_paths(text, base) ==
    IF base = <<>> THEN text
    ELSE LET a == RewriteAttr(RewriteAttr(RewriteAttr(text, "href=", base),
                                          "src=", base), "action=", base)
             u == SubNotSlash(a, <<"url(", SQ, SL>>, <<"url(", SQ>> \o base \o <<SL>>)
             v == SubNotSlash(u, <<"url(", DQ, SL>>, <<"url(", DQ>> \o base \o <<SL>>)
         IN  SubManifest(v, base)

(***************************************************************************)
(* Inputs of the rewriting: texts built from references of every form the  *)
(* rewriting distinguishes ("x" stands for a path such as assets/x).       *)
(***************************************************************************)
MaxRefs == 2

RefBlocks ==
    { <<"href=", DQ, SL, "x", DQ>>,
      <<"href=", SQ, SL, "x", SQ>>,
      <<"src=", DQ, SL, "x", DQ>>,
      <<"action=", SQ, SL, "x", SQ>>,
      <<"url(", SL, "x", ")">>,
      <<"url(", SQ, SL, "x", SQ, ")">>,
      <<"url(", DQ, SL, "x", DQ, ")">>,
      <<"href=", DQ, SL, SL, "x", DQ>>,
      <<"url(", SQ, SL, SL, "x", SQ, ")">>,
      <<"href=", DQ, "manifest.json", DQ>>,
      <<"HREF=", SQ, "Manifest.json", SQ>>,
      <<"href=", DQ, "x", DQ>>,
      <<"x">>,
      <<"href=", DQ, SL>>,
      <<SL>> }

RwTexts == {Concat(bs) : bs \in SeqsUpTo(RefBlocks, MaxRefs)}

\* Values of --base-path / BASE_PATH before normalisation.
BasePathArgs ==
    { <<>>, <<SL>>, <<"repo">>, <<SL, "repo", SL>>, <<" ", SL, "repo", " ">>,
      <<SL, SL, "repo">> }

RwIdle == [pc |-> "idle", text |-> <<>>, arg |-> <<>>, base |-> <<>>,
           once |-> <<>>, twice |-> <<>>]

RwInputs ==
    rw \in [pc : {"start"}, text : RwTexts, arg : BasePathArgs, base : {<<>>},
            once : {<<>>}, twice : {<<>>}]

RwNormalize ==
    /\ rw.pc = "start"
    /\ rw' = [rw EXCEPT !.pc = "norm", !.base = _normalize_base_path(rw.arg)]
    /\ UNCHANGED <<ds, ij, mainVars>>

RwFirst ==
    /\ rw.pc = "norm"
    /\ rw' = [rw EXCEPT !.pc = "once", !.once = _rewrite_base_paths(rw.text, rw.base)]
    /\ UNCHANGED <<ds, ij, mainVars>>

RwSecond ==
    /\ rw.pc = "once"
    /\ rw' = [rw EXCEPT !.pc = "twice", !.twice = _rewrite_base_paths(rw.once, rw.base)]
    /\ UNCHANGED <<ds, ij, mainVars>>

(***************************************************************************)
(* _discover_slugs                                                         *)
(*                                                                         *)
(* A configuration directory maps the names of its *.yml files to their    *)
(* contents.  A file name is modelled by its rank in the lexical order of  *)
(* the names; a file that vanished between the glob and the read has       *)
(* exists = FALSE (read_text raises FileNotFoundError).                    *)
(***************************************************************************)
Idents == {"home", "a", "b"}

\* slug_re.match(line): ^\s*slug:\s*([A-Za-z0-9_-]+)\s*$ .  The result is
\* <<slug>>, or <<>> when the line does not match.
SlugOf(line) ==
    LET l == Strip(line)
    IN  IF l # <<>> /\ Head(l) = "slug:"
        THEN LET v == LStrip(Tail(l), {" ", "\n"})
             IN  IF Len(v) = 1 /\ v[1] \in Idents THEN v ELSE <<>>
        ELSE <<>>

\* sorted(names)
RECURSIVE SortedSeq(_)
SortedSeq(S) ==
    IF S = {} THEN <<>>
    ELSE LET m == CHOOSE x \in S : \A y \in S : x <= y
         IN  <<m>> \o SortedSeq(S \ {m})

\* The lines read, file after file in sorted order.
RECURSIVE LinesRead(_, _)
LinesRead(cfg, names) ==
    IF names = <<>> THEN <<>>
    ELSE (IF cfg[Head(names)].exists THEN cfg[Head(names)].lines ELSE <<>>)
             \o LinesRead(cfg, Tail(names))

\* The loop body over the lines: append a matched slug unless already seen.
RECURSIVE ScanLines(_, _)
ScanLines(lines, acc) ==
    IF lines = <<>> THEN acc
    ELSE LET m == SlugOf(Head(lines))
         IN  IF m = <<>> \/ m[1] \in Range(acc)
             THEN ScanLines(Tail(lines), acc)
             ELSE ScanLines(Tail(lines), Append(acc, m[1]))

\* "home" put in front without removing it from its old place.
HomeFirstKeep(found) ==
    IF "home" \in Range(found) THEN <<"home">> \o found ELSE found

\* slugs = ["home"] + [s for s in slugs if s != "home"]
HomeFirst(found) ==
    IF "home" \in Range(found)
    THEN <<"home">> \o SelectSeq(found, LAMBDA s : s # "home")
    ELSE found

_discover_slugs(cfg) ==
    HomeFirst(ScanLines(LinesRead(cfg, SortedSeq(DOMAIN cfg)), <<>>))

(***************************************************************************)
(* Inputs of the discovery.                                                *)
(***************************************************************************)
MaxLines == 2

FileNames == {1, 2}

ConfigLines ==
    { <<"slug:", " ", "home">>,
      <<" ", "slug:", "a", " ">>,
      <<"slug:", " ", "b">>,
      <<"slug:", " ", "a", " ", "b">>,
      <<"title:", " ", "home">>,
      <<"-", " ", "slug:", " ", "a">> }

ConfigFiles ==
    [exists : {TRUE}, lines : SeqsUpTo(ConfigLines, MaxLines)]
        \cup {[exists |-> FALSE, lines |-> <<>>]}

Configs == [FileNames -> ConfigFiles]

DsIdle == [pc |-> "idle", cfg |-> <<>>, out |-> <<>>]

DsInputs == ds \in [pc : {"start"}, cfg : Configs, out : {<<>>}]

DsDiscover ==
    /\ ds.pc = "start"
    /\ ds' = [ds EXCEPT !.pc = "done", !.out = _discover_slugs(ds.cfg)]
    /\ UNCHANGED <<rw, ij, mainVars>>

(***************************************************************************)
(* _extract_bundle_css_path                                                *)
(***************************************************************************)
\* The tokens of t from position i up to the first one holding '>' hold no
\* other '>' by construction; this is the position of that token, or 0.
RECURSIVE NextGT(_, _)
NextGT(t, i) ==
    IF i > Len(t) THEN 0 ELSE IF HasGT(t[i]) THEN i ELSE NextGT(t, i + 1)

\* <link[^>]+href=['"](/static/[^'"]+/css/bundle\.css)['"][^>]*> matches at i.
BundleLinkAt(t, i) ==
    /\ i + 5 <= Len(t)
    /\ t[i] = LINKOPEN
    /\ t[i + 1] = "href="
    /\ t[i + 2] \in Quotes
    /\ t[i + 3] = SL
    /\ t[i + 4] = BUNDLEREL
    /\ t[i + 5] \in Quotes
    /\ NextGT(t, i + 6) # 0

\* A shell without the link answered with the usual path of the bundle.
ExtractBundleDefault(shell_html) == [ok |-> TRUE, path |-> <<SL, BUNDLEREL>>]

\* [ok |-> TRUE, path |-> the captured path], or ok = FALSE for the
\* RuntimeError raised when nothing matches.
_extract_bundle_css_path(shell_html) ==
    IF \E i \in 1..Len(shell_html) : BundleLinkAt(shell_html, i)
    THEN [ok |-> TRUE, path |-> <<SL, BUNDLEREL>>]
    ELSE [ok |-> FALSE, path |-> <<>>]

(***************************************************************************)
(* _inject_content                                                         *)
(***************************************************************************)
\* The least position in 1..Len(t) satisfying P, or 0.
FirstPos(t, P(_)) ==
    IF \E i \in 1..Len(t) : P(i)
    THEN CHOOSE i \in 1..Len(t) : P(i) /\ \A k \in 1..(i - 1) : ~P(k)
    ELSE 0

\* The position after the run of whitespace tokens starting at i.
RECURSIVE SkipWS(_, _)
SkipWS(t, i) == IF i <= Len(t) /\ IsWS(t[i]) THEN SkipWS(t, i + 1) ELSE i

\* (<div[^>]*\bid=["']page-content["'][^>]*>)\s*</div> matches at i.
PlaceholderAt(t, i) ==
    /\ t[i] = PH
    /\ SkipWS(t, i + 1) <= Len(t)
    /\ t[SkipWS(t, i + 1)] = DIVEND

\* The replacement template r"\1" + content_html + r"</div>" is parsed by re:
\* a backslash followed by a letter that is no escape is an error.
TemplateOk(content) == BSD \notin Range(content)

\* The template expanded: \1 is the first group, \\ is one backslash.
RECURSIVE Expand(_, _)
Expand(content, g1) ==
    IF content = <<>> THEN <<>>
    ELSE (CASE Head(content) = BS1 -> <<g1>>
            [] Head(content) = BSBS -> <<BS>>
            [] OTHER -> <<Head(content)>>) \o Expand(Tail(content), g1)

\* Step 1 with the fragment spliced in as it stands.
InjectVerbatim(t, content) ==
    LET i == FirstPos(t, LAMBDA k : PlaceholderAt(t, k))
    IN  IF i = 0 THEN <<>>
        ELSE SubSeq(t, 1, i) \o content \o Drop(t, SkipWS(t, i + 1) - 1)

\* Step 1: re.subn(placeholder, template, shell_html, count=1).
InjectStep(t, content) ==
    LET i == FirstPos(t, LAMBDA k : PlaceholderAt(t, k))
    IN  IF i = 0 THEN <<>>
        ELSE SubSeq(t, 1, i) \o Expand(content, t[i]) \o Drop(t, SkipWS(t, i + 1) - 1)

\* Step 2a: (<main[^>]*\bclass=["'])page(\b[^"']*["'][^>]*>), first match.
MarkReady(t) ==
    LET i == FirstPos(t, LAMBDA k : t[k] = MAINPAGE /\ NextGT(t, k + 1) # 0)
    IN  IF i = 0 THEN t ELSE [t EXCEPT ![i] = MAINREADY]

\* Step 2b: (\baria-busy=["'])true(["']), first match.
ClearBusy(t) ==
    LET i == FirstPos(t, LAMBDA k : t[k] = BUSY)
    IN  IF i = 0 THEN t ELSE [t EXCEPT ![i] = NOTBUSY]

\* <script[^>]+src=['"]/static/[^'"]+/js/page\.js['"][^>]*></script> at i.
PageJsAt(t, i) ==
    /\ i + 6 <= Len(t)
    /\ t[i] = SCRIPTOPEN
    /\ t[i + 1] = "src="
    /\ t[i + 2] \in Quotes
    /\ t[i + 3] = SL
    /\ t[i + 4] = PAGEJSREL
    /\ t[i + 5] \in Quotes
    /\ t[i + 6] = SCRIPTEND

\* Step 3: the first page.js script element and the whitespace after it.
RemoveBoot(t) ==
    LET i == FirstPos(t, LAMBDA k : PageJsAt(t, k))
    IN  IF i = 0 THEN t ELSE SubSeq(t, 1, i - 1) \o Drop(t, SkipWS(t, i + 7) - 1)

\* [ok |-> TRUE, text |-> page], or ok = FALSE with the exception raised.
_inject_content(shell_html, content_html) ==
    IF ~TemplateOk(content_html) THEN [ok |-> FALSE, err |-> "re.error", text |-> <<>>]
    ELSE IF \A k \in 1..Len(shell_html) : ~PlaceholderAt(shell_html, k)
    THEN [ok |-> FALSE, err |-> "RuntimeError", text |-> <<>>]
    ELSE [ok |-> TRUE, err |-> "",
          text |-> RemoveBoot(ClearBusy(MarkReady(InjectStep(shell_html, content_html))))]

(***************************************************************************)
(* Inputs of the injection: shells with exactly one empty placeholder.     *)
(***************************************************************************)
MaxShellBlocks == 2
MaxFragBlocks == 2

BootScript == <<SCRIPTOPEN, "src=", DQ, SL, PAGEJSREL, DQ, SCRIPTEND, "\n">>

ShellBlocks ==
    { <<MAINPAGE, BUSY, GT>>, <<MAINPAGE, GT>>, BootScript, <<"txt">> }

FragBlocks ==
    { <<"txt">>, <<BS1>>, <<BSD>>, <<BSBS>>, <<SPANOPEN, BUSY, GT>>, BootScript,
      <<MAINPAGE, GT>> }

Placeholders == { <<PH, DIVEND>>, <<PH, "\n", DIVEND>> }

IjShells ==
    { Concat(pre) \o ph \o Concat(post) :
        pre \in SeqsUpTo(ShellBlocks, MaxShellBlocks),
        ph \in Placeholders,
        post \in SeqsUpTo(ShellBlocks \cup {<<"</main>">>}, 1) }

IjFragments == {Concat(bs) : bs \in SeqsUpTo(FragBlocks, MaxFragBlocks)}

IjIdle == [pc |-> "idle", shell |-> <<>>, frag |-> <<>>,
           res |-> [ok |-> FALSE, err |-> "", text |-> <<>>]]

IjInputs ==
    ij \in [pc : {"start"}, shell : IjShells, frag : IjFragments,
            res : {[ok |-> FALSE, err |-> "", text |-> <<>>]}]

IjInject ==
    /\ ij.pc = "start"
    /\ ij' = [ij EXCEPT !.pc = "done", !.res = _inject_content(ij.shell, ij.frag)]
    /\ UNCHANGED <<rw, ds, mainVars>>

(***************************************************************************)
(* _download_static_css_and_deps: the references of the bundle             *)
(***************************************************************************)
\* The end of the run of tokens [^'"\)]+ starting at i (i - 1 if it is empty).
RECURSIVE RunEnd(_, _)
RunEnd(t, i) ==
    IF i <= Len(t) /\ t[i] \notin Quotes \cup {")"} THEN RunEnd(t, i + 1) ELSE i - 1

\* url_re, url\(\s*(['"]?)([^'"\)]+)\1\s*\), matched at i: <<group 2>> or <<>>.
UrlRefAt(t, i) ==
    IF t[i] # "url(" THEN <<>>
    ELSE LET a == SkipWS(t, i + 1)
             q == IF a <= Len(t) /\ t[a] \in Quotes THEN <<t[a]>> ELSE <<>>
             b == a + Len(q)
             e == RunEnd(t, b)
             c == IF q = <<>> THEN e + 1 ELSE SkipWS(t, e + 2)
         IN  IF /\ e >= b
                /\ (q # <<>> => e + 1 <= Len(t) /\ t[e + 1] = q[1])
                /\ c <= Len(t) /\ t[c] = ")"
             THEN <<SubSeq(t, b, e)>>
             ELSE <<>>

\* posixpath.normpath(posixpath.join(css_dir, ref)) for the relative
\* references of the bundles below, css_dir being /static/h/css.
ResolveRelative(ref) ==
    CASE ref = <<"../fonts/a.woff2">> -> <<SL, "static/h/fonts/a.woff2">>
      [] OTHER -> <<SL, "static/h/css/">> \o ref

\* The loop over url_re.finditer(css_text): the set refs.
CssRefs(css_text) ==
    LET found == {Strip(UrlRefAt(css_text, i)[1]) :
                    i \in {k \in 1..Len(css_text) : UrlRefAt(css_text, k) # <<>>}}
        kept == {r \in found : r # <<>> /\ Head(r) \notin {"data:x", "http:", "https:"}}
    IN  {IF Head(r) = SL THEN r ELSE ResolveRelative(r) : r \in kept}

\* The rank of a resolved reference in the order of str.
RefRank(ref) ==
    CASE ref = <<SL, "static/h/fonts/a.woff2">> -> 1
      [] ref = <<SL, "static/h/img/b.png">> -> 2
      [] OTHER -> 3

\* sorted(refs)
RECURSIVE SortedRefs(_)
SortedRefs(S) ==
    IF S = {} THEN <<>>
    ELSE LET m == CHOOSE x \in S : \A y \in S : RefRank(x) <= RefRank(y)
         IN  <<m>> \o SortedRefs(S \ {m})

(***************************************************************************)
(* The file system.  A path is <<directory, stem, suffix>> below the       *)
(* output directory; a directory is [exists, files], files mapping the     *)
(* paths of its regular files to their texts.                              *)
(***************************************************************************)
NoFiles == [p \in {} |-> <<>>]

RootIndex == <<"", "index", ".html">>
PagePath(slug) == <<slug, "index", ".html">>
ManifestPath == <<"", "manifest", ".json">>
NoJekyll == <<"", ".nojekyll", "">>

\* out_dir / ref.lstrip("/")
OutPathOf(ref) ==
    CASE ref = <<SL, BUNDLEREL>> -> <<"static/h/css", "bundle", ".css">>
      [] ref = <<SL, "static/h/fonts/a.woff2">> -> <<"static/h/fonts", "a", ".woff2">>
      [] ref = <<SL, "static/h/img/b.png">> -> <<"static/h/img", "b", ".png">>
      [] OTHER -> <<"static/h", "other", "">>

\* p.suffix.lower()
LowerSuffix(p) == IF p[3] = ".CSS" THEN ".css" ELSE IF p[3] = ".HTML" THEN ".html" ELSE p[3]

WriteFile(files, p, text) ==
    [q \in DOMAIN files \cup {p} |-> IF q = p THEN text ELSE files[q]]

\* One more in the counter of every path of P.
Count(f, P) ==
    [q \in DOMAIN f \cup P |->
        (IF q \in DOMAIN f THEN f[q] ELSE 0) + (IF q \in P THEN 1 ELSE 0)]

\* mkdir alone: a tree that is there is kept.
MkdirOnly(dir) == IF dir.exists THEN dir ELSE [exists |-> TRUE, files |-> NoFiles]

\* shutil.rmtree(out_dir) if it exists, then _mkdirp(out_dir)
PrepareOutDir(dir) == [exists |-> TRUE, files |-> NoFiles]

(***************************************************************************)
(* The environment of a run: the documents the Glance server may answer    *)
(* with, the trees the run may find on disk, the command line.             *)
(***************************************************************************)
MaxTimeout == 1
MaxFetchTicks == 1

\* time.sleep(0.5): time is counted in ticks of half a second.
SleepTicks == 1
TicksPerSecond == 2

BundleLink == <<LINKOPEN, "href=", SQ, SL, BUNDLEREL, SQ, GT>>
ManifestLink == <<"<link rel=\"manifest\" ", "href=", DQ, "manifest.json", DQ, GT>>

FullShell ==
    BundleLink \o ManifestLink \o BootScript
        \o <<MAINPAGE, BUSY, GT, PH, DIVEND, "</main>">>
NoLinkShell == ManifestLink \o <<MAINPAGE, BUSY, GT, PH, DIVEND, "</main>">>
NoPlaceholderShell == BundleLink \o <<MAINPAGE, BUSY, GT, "</main>">>

ServerShells == {FullShell, NoLinkShell, NoPlaceholderShell}

ServerContents == { <<"<a ", "href=", DQ, SL, "a", DQ, GT, "txt", "</a>">>, <<BSD>> }

ServerCss ==
    { <<"url(", "../fonts/a.woff2", ")", "url(", "data:x", ")">>,
      <<"url(", SQ, SL, "static/h/img/b.png", SQ, ")",
        "url(", DQ, "https:", SL, SL, "cdn/x", DQ, ")">> }

AssetTrees ==
    { [exists |-> FALSE, files |-> NoFiles],
      [exists |-> TRUE,
       files |-> (<<"assets", "user", ".css">> :> <<"url(", SQ, SL, "x", SQ, ")">>)
                 @@ (<<"assets", "logo", ".png">> :> <<"png">>)] }

OldTrees ==
    { [exists |-> FALSE, files |-> NoFiles],
      [exists |-> TRUE,
       files |-> (RootIndex :> <<"old">>) @@ (<<"", "stale", ".html">> :> <<"old">>)] }

File(ls) == [exists |-> TRUE, lines |-> ls]

MainConfigs ==
    { [f \in FileNames |-> File(<<>>)],
      [f \in FileNames |-> File(<< <<"slug:", " ", "a">> >>)],
      [f \in FileNames |->
          IF f = 1 THEN File(<< <<"slug:", " ", "b">>, <<"title:", " ", "home">> >>)
          ELSE File(<< <<"slug:", " ", "home">>, <<"slug:", " ", "b">> >>)] }

\* What a failed probe may raise.
ProbeFailures == {"URLError", "HTTPError", "timeout"}

(***************************************************************************)
(* main()                                                                  *)
(***************************************************************************)
\* Every fatal condition gets status 1.
ExitStatusShared(condition) == IF condition = "none" THEN 0 ELSE 1

\* The status the process exits with: the value main() returns, or 1 when
\* an exception leaves main() (raise SystemExit(main()) is never reached).
ExitStatus(condition) ==
    CASE condition = "none" -> 0
      [] condition = "no_slugs" -> 2
      [] condition = "not_ready" -> 3
      [] condition = "no_assets" -> 4
      [] condition = "exception" -> 1

\* probe_path = "/home" if "home" in slugs else "/"
ProbePath(ss) == IF "home" \in Range(ss) THEN <<SL, "home">> ELSE <<SL>>

\* The timeout test with >= for > .
TimedOutAtLimit(e, timeout_seconds) == e >= timeout_seconds * TicksPerSecond

\* time.time() - start > args.timeout_seconds
TimedOut(e, timeout_seconds) == e > timeout_seconds * TicksPerSecond

\* except Exception: every failure of the probe is caught.
Swallowed(cause) == TRUE

\* The root document written for every slug.
PageWritesRootAlways(slug) == {PagePath(slug), RootIndex}

\* The files one iteration of the page loop writes.
PageWrites(slug) == {PagePath(slug)} \cup (IF slug = "home" THEN {RootIndex} ELSE {})

\* An iterator that yields the file it has just yielded again.
RemainingSame(files, p) == files

\* out_dir.rglob("*") yields every file once.
Remaining(files, p) == files \ {p}

MainIdle ==
    /\ pc = "idle" /\ status = -1 /\ err = ""
    /\ args = [base_path |-> <<>>, timeout_seconds |-> 0]
    /\ config = [f \in FileNames |-> File(<<>>)]
    /\ assetsDir = [exists |-> FALSE, files |-> NoFiles]
    /\ outDir0 = [exists |-> FALSE, files |-> NoFiles]
    /\ outDir = outDir0
    /\ slugs = <<>> /\ base_path = <<>> /\ elapsed = 0 /\ ready = FALSE
    /\ probed = {} /\ sample = <<>> /\ bundle_css_path = <<>> /\ deps = <<>>
    /\ cur = 0 /\ todo = {} /\ writes = NoFiles /\ rewritten = NoFiles

Init ==
    /\ rw = RwIdle /\ ds = DsIdle /\ ij = IjIdle
    /\ pc = "start" /\ status = -1 /\ err = ""
    /\ args \in [base_path : {<<>>, <<"repo">>}, timeout_seconds : 0..MaxTimeout]
    /\ config \in MainConfigs
    /\ assetsDir \in AssetTrees
    /\ outDir0 \in OldTrees
    /\ outDir = outDir0
    /\ slugs = <<>> /\ base_path = <<>> /\ elapsed = 0 /\ ready = FALSE
    /\ probed = {} /\ sample = <<>> /\ bundle_css_path = <<>> /\ deps = <<>>
    /\ cur = 0 /\ todo = {} /\ writes = NoFiles /\ rewritten = NoFiles

\* return <status>
Return(condition) ==
    /\ status' = ExitStatus(condition)
    /\ pc' = "done"

\* An exception that nothing catches.
Raise(exc) ==
    /\ err' = exc
    /\ Return("exception")

\* Lines 246-254: the base path, the slugs.
Start ==
    /\ pc = "start"
    /\ base_path' = _normalize_base_path(args.base_path)
    /\ slugs' = _discover_slugs(config)
    /\ IF slugs' = <<>> THEN Return("no_slugs") ELSE pc' = "probe" /\ status' = status
    /\ UNCHANGED <<rw, ds, ij, err, args, config, assetsDir, outDir0, outDir, elapsed,
                   ready, probed, sample, bundle_css_path, deps, cur, todo, writes,
                   rewritten>>

\* Lines 259-262: a probe that is answered.  start is not read after the loop.
ProbeOk ==
    /\ pc = "probe"
    /\ probed' = probed \cup {ProbePath(slugs)}
    /\ ready' = TRUE
    /\ elapsed' = 0
    /\ pc' = "prepare"
    /\ UNCHANGED <<rw, ds, ij, status, err, args, config, assetsDir, outDir0, outDir,
                   slugs, base_path, sample, bundle_css_path, deps, cur, todo, writes,
                   rewritten>>

\* Lines 259-267: a probe that fails after d ticks.
ProbeFail ==
    /\ pc = "probe"
    /\ \E d \in 0..MaxFetchTicks, cause \in ProbeFailures :
          /\ probed' = probed \cup {ProbePath(slugs)}
          /\ IF ~Swallowed(cause)
             THEN elapsed' = elapsed + d /\ Raise(cause)
             ELSE /\ err' = err
                  /\ IF TimedOut(elapsed + d, args.timeout_seconds)
                     THEN elapsed' = elapsed + d /\ Return("not_ready")
                     ELSE /\ elapsed' = elapsed + d + SleepTicks
                          /\ pc' = pc /\ status' = status
    /\ UNCHANGED <<rw, ds, ij, args, config, assetsDir, outDir0, outDir, slugs,
                   base_path, ready, sample, bundle_css_path, deps, cur, todo, writes,
                   rewritten>>

\* Lines 269-271.
PrepareOut ==
    /\ pc = "prepare"
    /\ outDir' = PrepareOutDir(outDir)
    /\ pc' = "assets"
    /\ UNCHANGED <<rw, ds, ij, status, err, args, config, assetsDir, outDir0, slugs,
                   base_path, elapsed, ready, probed, sample, bundle_css_path, deps,
                   cur, todo, writes, rewritten>>

\* Lines 274-278.
CopyAssets ==
    /\ pc = "assets"
    /\ IF ~assetsDir.exists
       THEN Return("no_assets") /\ UNCHANGED <<outDir, writes>>
       ELSE /\ outDir' = [outDir EXCEPT !.files = assetsDir.files @@ outDir.files]
            /\ writes' = Count(writes, DOMAIN assetsDir.files)
            /\ pc' = "manifest" /\ status' = status
    /\ UNCHANGED <<rw, ds, ij, err, args, config, assetsDir, outDir0, slugs, base_path,
                   elapsed, ready, probed, sample, bundle_css_path, deps, cur, todo,
                   rewritten>>

\* Lines 281-286: the manifest, or no manifest when the fetch fails.
FetchManifest ==
    /\ pc = "manifest"
    /\ \E got \in BOOLEAN :
          IF got
          THEN /\ outDir' = [outDir EXCEPT
                               !.files = WriteFile(@, ManifestPath, <<"json">>)]
               /\ writes' = Count(writes, {ManifestPath})
          ELSE UNCHANGED <<outDir, writes>>
    /\ pc' = "sample"
    /\ UNCHANGED <<rw, ds, ij, status, err, args, config, assetsDir, outDir0, slugs,
                   base_path, elapsed, ready, probed, sample, bundle_css_path, deps,
                   cur, todo, rewritten>>

\* Lines 289-290: the sample shell and the path of the bundle in it.
ResolveBundle ==
    /\ pc = "sample"
    /\ \/ Raise("URLError") /\ UNCHANGED <<sample, bundle_css_path>>
       \/ \E shell \in ServerShells :
             /\ sample' = shell
             /\ IF _extract_bundle_css_path(shell).ok
                THEN /\ bundle_css_path' = _extract_bundle_css_path(shell).path
                     /\ pc' = "css" /\ status' = status /\ err' = err
                ELSE Raise("RuntimeError") /\ bundle_css_path' = bundle_css_path
    /\ UNCHANGED <<rw, ds, ij, args, config, assetsDir, outDir0, outDir, slugs,
                   base_path, elapsed, ready, probed, deps, cur, todo, writes,
                   rewritten>>

\* Lines 198-226: the bundle written, its references collected.
DownloadCss ==
    /\ pc = "css"
    /\ \/ Raise("URLError") /\ UNCHANGED <<outDir, writes, deps, cur>>
       \/ \E css \in ServerCss :
             /\ outDir' = [outDir EXCEPT
                             !.files = WriteFile(@, OutPathOf(bundle_css_path), css)]
             /\ writes' = Count(writes, {OutPathOf(bundle_css_path)})
             /\ deps' = SortedRefs(CssRefs(css))
             /\ pc' = IF deps' = <<>> THEN "pages" ELSE "deps"
             /\ cur' = IF deps' = <<>> THEN 1 ELSE cur
             /\ status' = status /\ err' = err
    /\ UNCHANGED <<rw, ds, ij, args, config, assetsDir, outDir0, slugs, base_path,
                   elapsed, ready, probed, sample, bundle_css_path, todo, rewritten>>

\* Lines 228-234: one reference of the bundle.
DownloadDep ==
    /\ pc = "deps"
    /\ \/ Raise("RuntimeError") /\ UNCHANGED <<outDir, writes, deps, cur>>
       \/ /\ outDir' = [outDir EXCEPT
                          !.files = WriteFile(@, OutPathOf(Head(deps)), <<"bytes">>)]
          /\ writes' = Count(writes, {OutPathOf(Head(deps))})
          /\ deps' = Tail(deps)
          /\ pc' = IF deps' = <<>> THEN "pages" ELSE "deps"
          /\ cur' = IF deps' = <<>> THEN 1 ELSE cur
          /\ status' = status /\ err' = err
    /\ UNCHANGED <<rw, ds, ij, args, config, assetsDir, outDir0, slugs, base_path,
                   elapsed, ready, probed, sample, bundle_css_path, todo, rewritten>>

\* Lines 294-301: one page.
BuildPage ==
    /\ pc = "pages" /\ cur <= Len(slugs)
    /\ \/ Raise("URLError") /\ UNCHANGED <<outDir, writes, cur>>
       \/ \E shell_html \in ServerShells, content_html \in ServerContents :
             LET page == _inject_content(shell_html, content_html)
             IN  IF ~page.ok
                 THEN Raise(page.err) /\ UNCHANGED <<outDir, writes, cur>>
                 ELSE /\ outDir' = [outDir EXCEPT !.files =
                                      [q \in PageWrites(slugs[cur]) |-> page.text] @@ @]
                      /\ writes' = Count(writes, PageWrites(slugs[cur]))
                      /\ cur' = cur + 1
                      /\ UNCHANGED <<pc, status, err>>
    /\ UNCHANGED <<rw, ds, ij, args, config, assetsDir, outDir0, slugs, base_path,
                   elapsed, ready, probed, sample, bundle_css_path, deps, todo,
                   rewritten>>

\* Line 304: the walk of the output tree begins.
BeginRewrite ==
    /\ pc = "pages" /\ cur > Len(slugs)
    /\ todo' = DOMAIN outDir.files
    /\ pc' = "rewrite"
    /\ UNCHANGED <<rw, ds, ij, status, err, args, config, assetsDir, outDir0, outDir,
                   slugs, base_path, elapsed, ready, probed, sample, bundle_css_path,
                   deps, cur, writes, rewritten>>

\* Lines 305-315: one file of the walk, in the order the walk yields them.
RewriteFile ==
    /\ pc = "rewrite" /\ todo # {}
    /\ \E p \in todo :
          /\ todo' = Remaining(todo, p)
          /\ IF LowerSuffix(p) \in {".html", ".css"}
             THEN /\ rewritten' = Count(rewritten, {p})
                  /\ outDir' = [outDir EXCEPT !.files[p] = _rewrite_base_paths(@, base_path)]
             ELSE UNCHANGED <<rewritten, outDir>>
    /\ UNCHANGED <<rw, ds, ij, pc, status, err, args, config, assetsDir, outDir0, slugs,
                   base_path, elapsed, ready, probed, sample, bundle_css_path, deps,
                   cur, writes>>

\* Lines 318-321.
Finish ==
    /\ pc = "rewrite" /\ todo = {}
    /\ outDir' = [outDir EXCEPT !.files = WriteFile(@, NoJekyll, <<>>)]
    /\ Return("none")
    /\ UNCHANGED <<rw, ds, ij, err, args, config, assetsDir, outDir0, slugs, base_path,
                   elapsed, ready, probed, sample, bundle_css_path, deps, cur, todo,
                   writes, rewritten>>

Next ==
    \/ Start \/ ProbeOk \/ ProbeFail \/ PrepareOut \/ CopyAssets \/ FetchManifest
    \/ ResolveBundle \/ DownloadCss \/ DownloadDep \/ BuildPage \/ BeginRewrite
    \/ RewriteFile \/ Finish

Spec == Init /\ [][Next]_vars

\* The process is sequential and keeps running: the statement it is at is
\* executed.  Stated for the statements up to the end of the probe loop.
SpecLive == Spec /\ WF_vars(Start) /\ WF_vars(ProbeOk \/ ProbeFail)

RwNext == RwNormalize \/ RwFirst \/ RwSecond
RwInit == RwInputs /\ ds = DsIdle /\ ij = IjIdle /\ MainIdle
SpecRewrite == RwInit /\ [][RwNext]_vars

DsNext == DsDiscover
DsInit == DsInputs /\ rw = RwIdle /\ ij = IjIdle /\ MainIdle
SpecDiscover == DsInit /\ [][DsNext]_vars

IjNext == IjInject
IjInit == IjInputs /\ rw = RwIdle /\ ds = DsIdle /\ MainIdle
SpecInject == IjInit /\ [][IjNext]_vars

(***************************************************************************)
(* Properties of main().                                                   *)
(***************************************************************************)
IsPagePath(p) == p[2] = "index" /\ p[3] = ".html" /\ p[1] \in Idents \cup {""}

Files == DOMAIN outDir.files

\* C1, as stated: after a run that exits with status zero the output holds
\* index.html at its root and exactly one page <slug>/index.html for every
\* discovered slug, whether or not "home" is among the slugs.
C1_RootAndEveryPage ==
    status = 0 =>
        /\ RootIndex \in Files
        /\ \A s \in Range(slugs) : PagePath(s) \in Files /\ writes[PagePath(s)] = 1

\* C1, amended: after a run that exits with status zero the output holds
\* exactly one page <slug>/index.html for every discovered slug, each written
\* once; page assembly writes the root index.html for the slug "home" only,
\* so the root index.html is there, as the copy of home/index.html, when
\* "home" was discovered, and the rebuilt output has none when it was not.
C1_PagesAndRootIffHome ==
    status = 0 =>
        /\ \A s \in Range(slugs) : PagePath(s) \in Files /\ writes[PagePath(s)] = 1
        /\ RootIndex \in Files <=> "home" \in Range(slugs)
        /\ "home" \in Range(slugs) =>
               /\ writes[RootIndex] = 1
               /\ outDir.files[RootIndex] = outDir.files[PagePath("home")]

C1_Witness == status = 0 /\ slugs # <<>> /\ "home" \notin Range(slugs)

\* C2: a file goes through the base-path rewriting only once every page and
\* asset file is written (the walk of line 304 has begun), no page or asset
\* file is written once a file has been rewritten, and no file is rewritten
\* more than once; only .html and .css files are rewritten.
C2_RewriteLastAndOnce ==
    /\ [][writes' # writes => rewritten = NoFiles /\ rewritten' = rewritten]_vars
    /\ [][rewritten' # rewritten => pc = "rewrite" /\ cur > Len(slugs) /\ deps = <<>>]_vars
    /\ [](\A p \in DOMAIN rewritten :
             rewritten[p] <= 1 /\ LowerSuffix(p) \in {".html", ".css"})

C2_Witness ==
    /\ status = 0 /\ base_path # <<>>
    /\ Cardinality(DOMAIN rewritten) >= 4
    /\ \E p \in DOMAIN rewritten : IsPagePath(p) /\ outDir.files[p] # <<>>
    /\ DOMAIN rewritten \subseteq DOMAIN writes

\* The fatal condition a finished run met, read off its state.
FatalCondition ==
    CASE slugs = <<>> -> "no_slugs"
      [] slugs # <<>> /\ ~ready -> "not_ready"
      [] slugs # <<>> /\ ready /\ err # "" -> "exception"
      [] slugs # <<>> /\ ready /\ err = "" /\ ~assetsDir.exists -> "no_assets"
      [] OTHER -> "none"

\* C3: a run that found no slugs ends with status 2, one whose server never
\* became ready with 3, one without the assets directory with 4, one that an
\* assembly or extraction error (any uncaught exception) ended with 1: four
\* distinct non-zero statuses; the status is zero only when none occurred.
C3_DistinctStatuses ==
    status # -1 =>
        /\ FatalCondition = "no_slugs" => status = 2
        /\ FatalCondition = "not_ready" => status = 3
        /\ FatalCondition = "no_assets" => status = 4
        /\ FatalCondition = "exception" => status = 1
        /\ status = 0 <=> FatalCondition = "none"

C3_Witness == status = 1 /\ err = "RuntimeError" /\ cur >= 1 /\ pc = "done"

HasNoBundleLink(shell_html) ==
    \A i \in 1..Len(shell_html) : ~BundleLinkAt(shell_html, i)

\* C4: when the sample shell holds no stylesheet link of the bundle shape,
\* the run is over with a non-zero status and no page file (<slug>/index.html
\* or the root index.html) has been written.
C4_NoBundleLinkAborts ==
    sample # <<>> /\ HasNoBundleLink(sample) =>
        /\ pc = "done" /\ status \notin {-1, 0}
        /\ \A p \in Files \cup DOMAIN writes : ~IsPagePath(p)

C4_Witness ==
    /\ sample = NoLinkShell /\ status = 1
    /\ Files # {} /\ slugs # <<>>

\* C9: the probe asks for /home when that slug was discovered and for /
\* otherwise; no exception leaves the probe loop; the not-ready status is
\* returned only once the elapsed time exceeds the timeout and no probe has
\* succeeded; the stages after the probe run only once a probe has
\* succeeded, and the first success ends the loop; the loop always ends.
C9_ProbeTerminates ==
    /\ [](probed \subseteq {IF "home" \in Range(slugs) THEN <<SL, "home">> ELSE <<SL>>})
    /\ [](~ready => err = "")
    /\ [](status = 3 =>
            ~ready /\ elapsed > args.timeout_seconds * TicksPerSecond)
    /\ [](pc \notin {"start", "probe", "done"} => ready /\ probed # {})
    /\ [](outDir # outDir0 => ready)
    /\ [][~ready /\ ready' => pc = "probe" /\ pc' = "prepare"]_vars
    /\ <>(pc \notin {"start", "probe"})

C9_Witness ==
    /\ status = 3 /\ args.timeout_seconds = MaxTimeout
    /\ probed = {<<SL, "home">>}

\* C10: a run that ends with status 2 or 3 leaves the output directory as it
\* found it; a run that ends with status 4 has removed every file of the
\* previous output tree.
C10_OutputUntouchedOrWiped ==
    /\ status \in {2, 3} => outDir = outDir0
    /\ status = 4 => outDir.exists /\ \A p \in DOMAIN outDir0.files : p \notin Files

C10_Witness == status = 4 /\ outDir0.files # NoFiles /\ outDir # outDir0

(***************************************************************************)
(* Properties of _rewrite_base_paths.                                      *)
(***************************************************************************)
\* A root-absolute reference begins at i: an attribute or url( , an opening
\* quote (q = 1) or none (q = 0), one slash and no second slash.
RootRefAt(t, i, openers, q) ==
    /\ i + q + 1 <= Len(t)
    /\ t[i] \in openers
    /\ q = 1 => t[i + 1] \in Quotes
    /\ t[i + q + 1] = SL
    /\ ~(i + q + 2 <= Len(t) /\ t[i + q + 2] = SL)

\* The text with the base path put in front of every root-absolute
\* reference of the five forms, unquoted url(/...) included, and of a bare
\* manifest.json href; everything else, protocol-relative references
\* included, is kept.
RECURSIVE PrefixEveryForm(_, _, _)
PrefixEveryForm(t, i, base) ==
    IF i > Len(t) THEN <<>>
    ELSE IF RootRefAt(t, i, {"href=", "src=", "action=", "url("}, 1)
         THEN <<t[i], t[i + 1]>> \o base \o <<SL>> \o PrefixEveryForm(t, i + 3, base)
    ELSE IF RootRefAt(t, i, {"url("}, 0)
         THEN <<t[i]>> \o base \o <<SL>> \o PrefixEveryForm(t, i + 2, base)
    ELSE IF ManifestAt(t, i)
         THEN <<"href=", t[i + 1]>> \o base \o <<SL, "manifest.json">>
                  \o PrefixEveryForm(t, i + 3, base)
    ELSE <<t[i]>> \o PrefixEveryForm(t, i + 1, base)

\* C5: with a non-empty base path the rewriting prefixes the base path onto
\* every root-absolute reference of the forms href="/x", href='/x', url(/x),
\* url('/x'), url("/x") (src= and action= alike), makes a bare
\* href="manifest.json" base-absolute, and alters no protocol-relative
\* reference.
C5_EveryFormPrefixed ==
    rw.pc \in {"once", "twice"} /\ rw.base # <<>> =>
        rw.once = PrefixEveryForm(rw.text, 1, rw.base)

\* C6, as stated: rewriting twice with the same base path gives the text
\* that rewriting once gives.
C6_Idempotent == rw.pc = "twice" => rw.twice = rw.once

SingleSlashBase(base) == Len(base) >= 2 /\ base[1] = SL /\ base[2] # SL

\* C6, amended: with the empty base path the rewriting returns the text
\* unchanged; with a normalized base path that begins with a single slash,
\* rewriting twice gives the text that rewriting once gives exactly when
\* rewriting once changes nothing (otherwise the second pass prefixes the
\* base path once more).
C6_IdempotentOnlyWhenUnchanged ==
    /\ rw.pc \in {"once", "twice"} /\ rw.base = <<>> => rw.once = rw.text
    /\ rw.pc = "twice" /\ rw.base = <<>> => rw.twice = rw.text
    /\ rw.pc = "twice" /\ SingleSlashBase(rw.base) =>
           (rw.twice = rw.once <=> rw.once = rw.text)

C6_Witness ==
    /\ rw.pc = "twice" /\ rw.base = <<SL, "repo">>
    /\ rw.once # rw.text /\ rw.twice # rw.once
    /\ Len(rw.twice) = Len(rw.text) + 4

(***************************************************************************)
(* Properties of _discover_slugs.                                          *)
(***************************************************************************)
\* The places <<file, line>> where slug s is declared in cfg.
Occurrences(cfg, s) ==
    {o \in (DOMAIN cfg) \X (1..MaxLines) :
        /\ cfg[o[1]].exists
        /\ o[2] <= Len(cfg[o[1]].lines)
        /\ SlugOf(cfg[o[1]].lines[o[2]]) = <<s>>}

\* Place o is read before place u: an earlier file, or an earlier line of
\* the same file.
ReadBefore(o, u) == o[1] < u[1] \/ (o[1] = u[1] /\ o[2] < u[2])

FirstOccurrence(cfg, s) ==
    CHOOSE o \in Occurrences(cfg, s) :
        \A u \in Occurrences(cfg, s) : u = o \/ ReadBefore(o, u)

\* C7: the result has no duplicates, holds exactly the slugs declared in
\* some file, has "home" first when it is declared anywhere, and lists the
\* other slugs in the order of their first occurrences (files in sorted
\* order, lines in file order).
C7_DistinctInFirstOccurrenceOrder ==
    ds.pc = "done" =>
        LET r == ds.out
        IN  /\ \A i, j \in 1..Len(r) : i # j => r[i] # r[j]
            /\ Range(r) = {s \in Idents : Occurrences(ds.cfg, s) # {}}
            /\ "home" \in Range(r) => r[1] = "home"
            /\ \A i, j \in 1..Len(r) :
                   i < j /\ r[i] # "home" /\ r[j] # "home" =>
                       ReadBefore(FirstOccurrence(ds.cfg, r[i]),
                                  FirstOccurrence(ds.cfg, r[j]))

C7_Witness ==
    /\ ds.pc = "done" /\ ds.out = <<"home", "a", "b">>
    /\ Cardinality(Occurrences(ds.cfg, "a")) = 2
    /\ ReadBefore(FirstOccurrence(ds.cfg, "a"), FirstOccurrence(ds.cfg, "home"))

(***************************************************************************)
(* Properties of _inject_content.                                          *)
(***************************************************************************)
\* The shell with its busy-state and bootstrap-script edits, and the
\* fragment as it stands inside the placeholder element.
ExpectedPage(shell_html, content_html) ==
    InjectVerbatim(RemoveBoot(ClearBusy(MarkReady(shell_html))), content_html)

\* C8: for a shell with exactly one empty placeholder and any fragment, the
\* injection succeeds and gives the shell with the fragment verbatim inside
\* the placeholder, nothing else changed but the busy state of the main
\* container and the removed bootstrap script.
C8_FragmentVerbatim ==
    ij.pc = "done" =>
        /\ ij.res.ok
        /\ ij.res.text = ExpectedPage(ij.shell, ij.frag)

====
